---- MODULE Spec2Model ----
(***************************************************************************)
(* Model of src/src/include/ts_begin.ts: the line streamer (emitLines),    *)
(* the process-exit fallback chain, the fire-and-forget / blocking /       *)
(* buffered / line-streamed spawn helpers and the handlers registered by   *)
(* nativeRegisterElectron.  Text is a sequence of one-character strings.   *)
(***************************************************************************)
EXTENDS Integers, Sequences, FiniteSets, TLC

\* ---------------------------------------------------------------- bounds
MaxText == 3
MaxChunk == 2

\* ------------------------------------------------------------- text model
NL == "\n"
Chars == {"a", "b", NL}
Streams == {1, 2}

TextsUpTo(n) == UNION {[1..k -> Chars] : k \in 0..n}

\* String.prototype.indexOf(c): 0-based position of the first c, or -1
RECURSIVE IndexFrom(_, _, _)
IndexFrom(s, c, i) ==
    IF i > Len(s) THEN -1
    ELSE IF s[i] = c THEN i - 1
    ELSE IndexFrom(s, c, i + 1)

indexOf(s, c) == IndexFrom(s, c, 1)

\* String.prototype.substring(from, to) and substring(from), 0-based
substring(s, from, to) == SubSeq(s, from + 1, to)
substringFrom(s, from) == SubSeq(s, from + 1, Len(s))

\* line 14 with the backlog overwritten instead of extended
AccumulateOverwrite(bl, data) == data

\* line 14: backlog += data
Accumulate(bl, data) == bl \o data

\* line 19: backlog = backlog.substring(n + 1)
DrainStep(bl, n) == substringFrom(bl, n + 1)

\* lines 15-21 with "if" in place of "while": at most one line per chunk
DrainOnce(bl, out) ==
    LET n == indexOf(bl, NL) IN
    IF n = -1 THEN [backlog |-> bl, lines |-> out]
    ELSE [backlog |-> DrainStep(bl, n),
          lines |-> Append(out, substring(bl, 0, n))]

\* lines 15-21: the while (~n) loop; out collects the emitted 'line' events
RECURSIVE DrainLines(_, _)
DrainLines(bl, out) ==
    LET n == indexOf(bl, NL) IN
    IF n = -1 THEN [backlog |-> bl, lines |-> out]
    ELSE DrainLines(DrainStep(bl, n), Append(out, substring(bl, 0, n)))

\* lines 24-26 with the flush left out
EndFlushNever(bl) == <<>>

\* lines 24-26: if (backlog) emit("line", backlog)
EndFlush(bl) == IF bl # <<>> THEN <<bl>> ELSE <<>>

\* ------------------------------------------------------------------ state
VARIABLES
    backlog,      \* per stream: the closure variable of emitLines
    emitted,      \* per stream: the 'line' events emitted so far, in order
    received,     \* per stream: concatenation of the chunks delivered so far
    ended,        \* per stream: the 'end' event has been delivered
    split,        \* per stream: some chunk went on with an unfinished line
    child,        \* line-streamed spawn: what the child does (output, code)
    exitEmitted,  \* line-streamed spawn: 'exit' has been delivered
    errorEmitted, \* line-streamed spawn: 'error' has been delivered
    handlerCalls, \* line-streamed spawn: arguments of the handler calls
    promise,      \* line-streamed spawn: the returned promise
    ctx,          \* the calling process: is_electron and what electron offers
    registered,   \* runs of nativeRegisterElectron in the main process
    calls,        \* the calls the calling process made, with what each did
    inbox,        \* one-way messages on their way to the main process
    mainLog,      \* what the main process did for each delivered message
    terminated    \* the calling process has ended (process.exit)

lineVars == <<backlog, emitted, received, ended, split>>
readLineVars == <<child, exitEmitted, errorEmitted, handlerCalls, promise>>
shellVars == <<ctx, registered, calls, inbox, mainLog, terminated>>
vars == <<lineVars, readLineVars, shellVars>>

\* the main process of the shell: electron.app exists
MainCtx ==
    [is_electron |-> TRUE, app |-> TRUE, remote |-> FALSE, ipcRenderer |-> FALSE]

ShellIdle ==
    /\ ctx = MainCtx
    /\ registered = 0
    /\ calls = <<>>
    /\ inbox = <<>>
    /\ mainLog = <<>>
    /\ terminated = FALSE

LinesInit ==
    /\ backlog = [s \in Streams |-> <<>>]
    /\ emitted = [s \in Streams |-> <<>>]
    /\ received = [s \in Streams |-> <<>>]
    /\ ended = [s \in Streams |-> FALSE]
    /\ split = [s \in Streams |-> FALSE]

\* lines 13-22: the 'data' handler
OnData(s, data) ==
    LET r == DrainLines(Accumulate(backlog[s], data), <<>>) IN
    /\ backlog' = [backlog EXCEPT ![s] = r.backlog]
    /\ emitted' = [emitted EXCEPT ![s] = @ \o r.lines]
    /\ received' = [received EXCEPT ![s] = @ \o data]
    /\ split' = [split EXCEPT ![s] = @ \/ (backlog[s] # <<>> /\ data # <<>>)]
    /\ UNCHANGED ended

\* lines 23-27: the 'end' handler
OnEnd(s) ==
    /\ emitted' = [emitted EXCEPT ![s] = @ \o EndFlush(backlog[s])]
    /\ ended' = [ended EXCEPT ![s] = TRUE]
    /\ UNCHANGED <<backlog, received, split>>

ReadLineIdle ==
    /\ child = [spawned |-> FALSE, stdout |-> <<>>, code |-> 0]
    /\ exitEmitted = FALSE
    /\ errorEmitted = FALSE
    /\ handlerCalls = <<>>
    /\ promise = [state |-> "pending", value |-> <<>>]

\* A readable stream delivers zero or more chunks, then 'end' once
StreamData ==
    \E s \in Streams, data \in TextsUpTo(MaxChunk) :
        /\ ~ended[s]
        /\ Len(received[s]) + Len(data) <= MaxText
        /\ OnData(s, data)
        /\ UNCHANGED <<readLineVars, shellVars>>

StreamEnd ==
    \E s \in Streams :
        /\ ~ended[s]
        /\ OnEnd(s)
        /\ UNCHANGED <<readLineVars, shellVars>>

LinesNext == StreamData \/ StreamEnd

LinesInit0 == LinesInit /\ ReadLineIdle /\ ShellIdle

LinesSpec == LinesInit0 /\ [][LinesNext]_vars

\* ------------------------------------------------------ line-streamed spawn
\* exit status of a child: 0..255, or absent (null) when there is none
NullStatus == -1
ExitCodes == {0, 2, NullStatus}

\* `${code}` in a template string
TemplateStr(code) == IF code = NullStatus THEN "null" ELSE ToString(code)

\* resolve(v) / reject(e) of a promise: only a pending promise changes
resolve(p, v) ==
    IF p.state = "pending" THEN [state |-> "fulfilled", value |-> v] ELSE p

reject(p, e) ==
    IF p.state = "pending" THEN [state |-> "rejected", value |-> e] ELSE p

\* lines 145-151 with the exit code ignored
ExitListenerAlwaysResolves(p, code) == resolve(p, <<>>)

\* lines 145-151: child.on('exit', (code) => ...)
ExitListener(p, code) ==
    IF code = 0 THEN resolve(p, <<>>)
    ELSE reject(p, <<"Process exited with code: ", TemplateStr(code)>>)

\* lines 154-156: child.on('error', (err) => reject(err))
ErrorListener(p, err) == reject(p, err)

\* lines 140-142: child.stdout.on("line", (data) => handler(data))
LineListener(seen, lines) == seen \o lines

\* line 133: spawn(...); the child's whole output and its exit code are the
\* child's choice, a child that could not be started prints nothing
ReadLineInit ==
    /\ LinesInit
    /\ \E out \in TextsUpTo(MaxText), code \in ExitCodes, ok \in BOOLEAN :
          child = [spawned |-> ok,
                   stdout |-> IF ok THEN out ELSE <<>>,
                   code |-> code]
    /\ exitEmitted = FALSE
    /\ errorEmitted = FALSE
    /\ handlerCalls = <<>>
    /\ promise = [state |-> "pending", value |-> <<>>]
    /\ ShellIdle

\* child.stdout is stream 1; it delivers the child's output in pieces
Undelivered == substringFrom(child.stdout, Len(received[1]))

StdoutData ==
    \E n \in 1..MaxChunk :
        /\ ~ended[1]
        /\ n <= Len(Undelivered)
        /\ OnData(1, SubSeq(Undelivered, 1, n))
        /\ handlerCalls' = LineListener(handlerCalls,
               DrainLines(Accumulate(backlog[1], SubSeq(Undelivered, 1, n)),
                          <<>>).lines)
        /\ UNCHANGED <<child, exitEmitted, errorEmitted, promise, shellVars>>

StdoutEnd ==
    /\ ~ended[1]
    /\ Undelivered = <<>>
    /\ OnEnd(1)
    /\ handlerCalls' = LineListener(handlerCalls, EndFlush(backlog[1]))
    /\ UNCHANGED <<child, exitEmitted, errorEmitted, promise, shellVars>>

\* 'exit' is emitted when the child has ended; its stdio streams may still be
\* open then.  After a failed spawn 'exit' may or may not follow 'error'.
ChildExit ==
    /\ ~exitEmitted
    /\ child.spawned \/ errorEmitted
    /\ exitEmitted' = TRUE
    /\ promise' = ExitListener(promise, child.code)
    /\ UNCHANGED <<lineVars, child, errorEmitted, handlerCalls, shellVars>>

\* 'error' is emitted when the child could not be spawned
ChildError ==
    /\ ~child.spawned
    /\ ~errorEmitted
    /\ ~exitEmitted
    /\ errorEmitted' = TRUE
    /\ promise' = ErrorListener(promise, <<"spawn failed">>)
    /\ UNCHANGED <<lineVars, child, exitEmitted, handlerCalls, shellVars>>

ReadLineNext == StdoutData \/ StdoutEnd \/ ChildExit \/ ChildError

ReadLineSpec == ReadLineInit /\ [][ReadLineNext]_vars

\* the event loop delivers the termination of every child
ReadLineFairSpec ==
    ReadLineSpec /\ WF_vars(ChildExit) /\ WF_vars(ChildError)

\* ------------------------------------------------ exit and spawn helpers
MaxCalls == 2
MaxRegister == 2

\* lines 4-9: no shell; the main process; a renderer with or without
\* electron.remote and electron.ipcRenderer (require('electron') in plain
\* Node gives a value that has neither)
Contexts ==
    {[is_electron |-> FALSE, app |-> FALSE, remote |-> FALSE,
      ipcRenderer |-> FALSE], MainCtx}
    \cup {[is_electron |-> TRUE, app |-> FALSE, remote |-> r, ipcRenderer |-> i] :
            r \in BOOLEAN, i \in BOOLEAN}

\* command lines: program path followed by arguments
Commands == {<<"prog">>, <<"prog", "x", "y">>}
QuitCodes == {0, 1}

\* what a child started by spawnSync does; NoChild could not be started
NoChild == [started |-> FALSE, status |-> NullStatus, stdout |-> <<>>]

Children ==
    {NoChild}
    \cup {[started |-> TRUE, status |-> st, stdout |-> <<" ", "a", NL>>] :
            st \in ExitCodes}

\* Array.prototype.slice(from)
slice(a, from) == SubSeq(a, from + 1, Len(a))

\* String.prototype.trim()
IsSpace(c) == c \in {" ", NL}

RECURSIVE trimStart(_)
trimStart(t) ==
    IF t # <<>> /\ IsSpace(Head(t)) THEN trimStart(Tail(t)) ELSE t

RECURSIVE trimEnd(_)
trimEnd(t) ==
    IF t # <<>> /\ IsSpace(t[Len(t)]) THEN trimEnd(SubSeq(t, 1, Len(t) - 1))
    ELSE t

trim(t) == trimEnd(trimStart(t))

\* one thing a call does to the world outside its process
Effect(kind, channel, code, cmd) ==
    [kind |-> kind, channel |-> channel, code |-> code,
     file |-> IF cmd = <<>> THEN "" ELSE cmd[1],
     args |-> IF cmd = <<>> THEN <<>> ELSE slice(cmd, 1)]

\* how a call ends for its caller
Outcome(kind, defined, value, message) ==
    [kind |-> kind, defined |-> defined, value |-> value, message |-> message]

ReturnedVoid == Outcome("returned", FALSE, <<>>, <<>>)
Returned(v) == Outcome("returned", TRUE, v, <<>>)
Exited == Outcome("exited", FALSE, <<>>, <<>>)
Blocked == Outcome("blocked", FALSE, <<>>, <<>>)
Threw(message) == Outcome("threw", FALSE, <<>>, message)
Rejected(message) == Outcome("rejected", FALSE, <<>>, message)
Fulfilled(v) == Outcome("fulfilled", TRUE, v, <<>>)
Pending == Outcome("pending", FALSE, <<>>, <<>>)

\* a method call on undefined, on null or on a value without that method
TypeError == <<"TypeError">>

Done(effects, outcome) == [effects |-> effects, outcome |-> outcome]

\* lines 50-65 with the remote and the message route in the other order
nativeExitProcessMessageFirst(c, code) ==
    IF c.is_electron THEN
        IF c.app THEN
            Done(<<Effect("app.quit", "", code, <<>>),
                   Effect("process.exit", "", code, <<>>)>>, Exited)
        ELSE IF c.ipcRenderer THEN
            Done(<<Effect("send", "velopack-quit", code, <<>>)>>, ReturnedVoid)
        ELSE IF c.remote THEN
            Done(<<Effect("remote.app.quit", "", code, <<>>)>>, ReturnedVoid)
        ELSE
            Done(<<>>, Threw(<<"Could not find a way to exit the process">>))
    ELSE
        Done(<<Effect("process.exit", "", code, <<>>)>>, Exited)

\* lines 50-65
nativeExitProcess(c, code) ==
    IF c.is_electron THEN
        IF c.app THEN
            Done(<<Effect("app.quit", "", code, <<>>),
                   Effect("process.exit", "", code, <<>>)>>, Exited)
        ELSE IF c.remote THEN
            Done(<<Effect("remote.app.quit", "", code, <<>>)>>, ReturnedVoid)
        ELSE IF c.ipcRenderer THEN
            Done(<<Effect("send", "velopack-quit", code, <<>>)>>, ReturnedVoid)
        ELSE
            Done(<<>>, Threw(<<"Could not find a way to exit the process">>))
    ELSE
        Done(<<Effect("process.exit", "", code, <<>>)>>, Exited)

\* lines 84-90
nativeStartProcessFireAndForget(c, command_line) ==
    IF c.is_electron /\ ~c.app THEN
        IF c.ipcRenderer THEN
            Done(<<Effect("send", "velopack-exec-fire-forget", 0, command_line)>>,
                 ReturnedVoid)
        ELSE Done(<<>>, Threw(TypeError))
    ELSE
        Done(<<Effect("spawn", "", 0, command_line)>>, ReturnedVoid)

\* lines 97-100 with the test "status > 0"
ClassifyPositiveOnly(ch) ==
    IF ch.status > 0 THEN
        Threw(<<"Process returned non-zero exit code (", TemplateStr(ch.status),
                "). Check the log for more details.">>)
    ELSE Returned(ch.stdout)

\* lines 97-100: child.status !== 0 throws, else child.stdout is returned
Classify(ch) ==
    IF ch.status # 0 THEN
        Threw(<<"Process returned non-zero exit code (", TemplateStr(ch.status),
                "). Check the log for more details.">>)
    ELSE Returned(ch.stdout)

\* lines 92-102 and the 'velopack-exec-blocking' listeners of lines 78-80.
\* ch is what the command does each time it is run; how a sendSync whose
\* listeners set no returnValue ends is the shell's choice (noReply).
RECURSIVE nativeStartProcessBlocking(_, _, _, _, _)
RECURSIVE EmitExecBlocking(_, _, _, _, _)

\* ipcMain.emit: the listeners run in registration order, a listener that
\* throws ends the emit; ev.reply is event.returnValue
EmitExecBlocking(i, n, command, ch, ev) ==
    IF i > n THEN ev
    ELSE LET r == nativeStartProcessBlocking(MainCtx, command, ch, 0, Blocked)
             eff == ev.effects \o r.effects
         IN IF r.outcome.kind = "returned"
            THEN EmitExecBlocking(i + 1, n, command, ch,
                     [effects |-> eff, replied |-> TRUE, reply |-> r.outcome])
            ELSE [effects |-> eff, replied |-> ev.replied, reply |-> ev.reply]

nativeStartProcessBlocking(c, command_line, ch, listeners, noReply) ==
    IF c.is_electron /\ ~c.app THEN
        IF c.ipcRenderer THEN
            LET ev == EmitExecBlocking(1, listeners, command_line, ch,
                          [effects |-> <<>>, replied |-> FALSE, reply |-> Blocked])
            IN Done(<<Effect("sendSync", "velopack-exec-blocking", 0,
                             command_line)>> \o ev.effects,
                    IF ev.replied THEN ev.reply ELSE noReply)
        ELSE Done(<<>>, Threw(TypeError))
    ELSE
        Done(<<Effect("spawnSync", "", 0, command_line)>>, Classify(ch))

\* what spawnSync gives as child.stdout: a string, or null for no child
SyncStdout(ch) == IF ch.started THEN "string" ELSE "null"

\* only a stream has the method on()
HasOn(type) == type = "stream"

\* lines 104-129: an exception in the executor rejects the promise; the
\* result of spawnSync emits no events, so listeners put on it never run
nativeStartProcessAsync(command_line, ch) ==
    Done(<<Effect("spawnSync", "", 0, command_line)>>,
         IF HasOn(SyncStdout(ch)) THEN Pending ELSE Rejected(TypeError))

\* lines 69-80: what one listener of the main process does with a message
Listener(m) ==
    IF m.channel = "velopack-quit"
    THEN <<Effect("app.quit", "", m.code, <<>>)>>
    ELSE nativeStartProcessFireAndForget(MainCtx, m.cmd).effects

RECURSIVE Listeners(_, _)
Listeners(n, m) == IF n = 0 THEN <<>> ELSE Listeners(n - 1, m) \o Listener(m)

Call(op, code, cmd, ch, r) ==
    [op |-> op, code |-> code, cmd |-> cmd, child |-> ch,
     listeners |-> registered,
     effects |-> r.effects, outcome |-> r.outcome]

\* the one-way messages among effects, as the main process will get them
Sends(effects, origin) ==
    LET idx == {i \in 1..Len(effects) : effects[i].kind = "send"}
    IN IF idx = {} THEN <<>>
       ELSE LET e == effects[CHOOSE i \in idx : TRUE]
            IN << [origin |-> origin, channel |-> e.channel, code |-> e.code,
                   cmd |-> IF e.file = "" THEN <<>> ELSE <<e.file>> \o e.args] >>

Record(c) ==
    /\ calls' = Append(calls, c)
    /\ inbox' = inbox \o Sends(c.effects, Len(calls) + 1)
    /\ terminated' = (c.outcome.kind \in {"exited", "blocked"})
    /\ UNCHANGED <<ctx, registered, mainLog, lineVars, readLineVars>>

CanCall == ~terminated /\ Len(calls) < MaxCalls

ShellInit ==
    /\ LinesInit
    /\ ReadLineIdle
    /\ ctx \in Contexts
    /\ registered = 0
    /\ calls = <<>>
    /\ inbox = <<>>
    /\ mainLog = <<>>
    /\ terminated = FALSE

ExitProcess ==
    \E code \in QuitCodes :
        /\ CanCall
        /\ Record(Call("exit", code, <<>>, NoChild, nativeExitProcess(ctx, code)))

StartProcessFireAndForget ==
    \E cmd \in Commands :
        /\ CanCall
        /\ Record(Call("fireAndForget", 0, cmd, NoChild,
                       nativeStartProcessFireAndForget(ctx, cmd)))

StartProcessBlocking ==
    \E cmd \in Commands, ch \in Children, noReply \in {Blocked, ReturnedVoid} :
        /\ CanCall
        /\ Record(Call("blocking", 0, cmd, ch,
               nativeStartProcessBlocking(ctx, cmd, ch, registered, noReply)))

StartProcessAsync ==
    \E cmd \in Commands, ch \in Children :
        /\ CanCall
        /\ Record(Call("async", 0, cmd, ch, nativeStartProcessAsync(cmd, ch)))

\* lines 67-82, run in the main process: ipcMain.on adds one more listener
\* to each channel
RegisterElectron ==
    /\ ctx.is_electron
    /\ registered < MaxRegister
    /\ registered' = registered + 1
    /\ UNCHANGED <<ctx, calls, inbox, mainLog, terminated, lineVars, readLineVars>>

\* the main process receives the oldest one-way message
MainReceive ==
    /\ inbox # <<>>
    /\ LET m == Head(inbox)
           eff == Listeners(registered, m)
       IN /\ mainLog' = Append(mainLog,
                 [origin |-> m.origin, channel |-> m.channel,
                  listeners |-> registered, effects |-> eff])
          /\ inbox' = Tail(inbox) \o Sends(eff, m.origin)
    /\ UNCHANGED <<ctx, registered, calls, terminated, lineVars, readLineVars>>

ShellNext ==
    \/ ExitProcess
    \/ StartProcessFireAndForget
    \/ StartProcessBlocking
    \/ StartProcessAsync
    \/ RegisterElectron
    \/ MainReceive

ShellSpec == ShellInit /\ [][ShellNext]_vars

\* ------------------------------------------------ reference line splitting
CountNL(t) == Cardinality({i \in 1..Len(t) : t[i] = NL})

\* position (1-based) of the k-th newline of t, 0 for k = 0
NthNL(t, k) ==
    IF k = 0 THEN 0
    ELSE CHOOSE i \in 1..Len(t) :
            /\ t[i] = NL
            /\ Cardinality({j \in 1..i : t[j] = NL}) = k

\* the i-th newline-delimited segment of t, newline excluded
Segment(t, i) == SubSeq(t, NthNL(t, i - 1) + 1, NthNL(t, i) - 1)

Segments(t) == [i \in 1..CountNL(t) |-> Segment(t, i)]

Remainder(t) == SubSeq(t, NthNL(t, CountNL(t)) + 1, Len(t))

\* C1: a stream that received text t has emitted exactly the CountNL(t)
\* newline-delimited segments of t, in order, before 'end'; after 'end' it has
\* emitted one further line, the text after the last newline, iff that text is
\* not empty.
C1_LinesMatchSegments ==
    \A s \in Streams :
        LET t == received[s] IN
        /\ ~ended[s] => emitted[s] = Segments(t)
        /\ ended[s] =>
              emitted[s] = Segments(t) \o
                  (IF Remainder(t) # <<>> THEN <<Remainder(t)>> ELSE <<>>)

C1_Witness ==
    /\ ended[1]
    /\ received[1] = <<NL, NL, "a">>
    /\ emitted[1] = << <<>>, <<>>, <<"a">> >>

\* C2: two streams that received the same text, cut into chunks in any way,
\* have emitted the same lines in the same order.
C2_ChunkingIrrelevant ==
    (received[1] = received[2] /\ ended[1] = ended[2])
        => emitted[1] = emitted[2]

C2_Witness ==
    /\ received[1] = <<"a", NL, "b">>
    /\ received[2] = received[1]
    /\ split[1] /\ ~split[2]
    /\ emitted[1] = << <<"a">>, <<"b">> >>
    /\ emitted[2] = emitted[1]
    /\ ended[1] /\ ended[2]

\* C3: after every 'data' handler the backlog holds no newline and is exactly
\* the received text after its last newline.
C3_BacklogIsRemainder ==
    \A s \in Streams :
        /\ \A i \in 1..Len(backlog[s]) : backlog[s][i] # NL
        /\ backlog[s] = Remainder(received[s])

C3_Witness ==
    /\ received[1] = <<NL, "a", "b">>
    /\ backlog[1] = <<"a", "b">>
    /\ ~ended[1]

\* the lines a child's whole output consists of
AllLines(t) == Segments(t) \o EndFlush(Remainder(t))

\* C4: when the promise of a line-streamed spawn is fulfilled, the handler has
\* been called once for each line of the child's output, in output order.
C4_ResolvesAfterAllLines ==
    promise.state = "fulfilled" => handlerCalls = AllLines(child.stdout)

Privileged(c) == ~(c.is_electron /\ ~c.app)
Restricted(c) == c.is_electron /\ ~c.app /\ c.ipcRenderer

CallsOf(op) == {i \in 1..Len(calls) : calls[i].op = op}
Kinds(effects) == {effects[j].kind : j \in 1..Len(effects)}
SpawnOf(kind, cmd) == Effect(kind, "", 0, cmd)
MessageHas(message, part) == \E j \in 1..Len(message) : message[j] = part

\* C6: a blocking spawn in a privileged or non-shell context returns the
\* child's standard output iff the exit status is 0, and for every other
\* status, the absent one included, throws an error whose message contains
\* the status.
C6_BlockingClassifiesByStatus ==
    \A i \in CallsOf("blocking") :
        LET c == calls[i] IN
        Privileged(ctx) =>
            /\ c.effects = <<SpawnOf("spawnSync", c.cmd)>>
            /\ c.child.status = 0 => c.outcome = Returned(c.child.stdout)
            /\ c.child.status # 0 =>
                  /\ c.outcome.kind = "threw"
                  /\ ~c.outcome.defined
                  /\ MessageHas(c.outcome.message,
                         IF c.child.status = NullStatus THEN "null"
                         ELSE ToString(c.child.status))

C6_Witness ==
    /\ ctx = MainCtx
    /\ \E i \in CallsOf("blocking") :
          /\ calls[i].child = NoChild
          /\ calls[i].outcome.kind = "threw"
          /\ MessageHas(calls[i].outcome.message, "null")

\* C7: a buffered asynchronous spawn resolves with the trimmed standard output
\* when the child exits with code 0 and rejects otherwise.
C7_AsyncResolvesTrimmedOutput ==
    \A i \in CallsOf("async") :
        LET c == calls[i] IN
        /\ c.child.status = 0 => c.outcome = Fulfilled(trim(c.child.stdout))
        /\ c.child.status # 0 => c.outcome.kind = "rejected"

\* the route the fallback order of nativeExitProcess prescribes
ExpectedRoute(c) ==
    IF ~c.is_electron \/ c.app THEN "local"
    ELSE IF c.remote THEN "remote"
    ELSE IF c.ipcRenderer THEN "message"
    ELSE "throw"

\* C8: an exit request takes exactly one route, the first available of local
\* termination, the remote app's quit and the 'velopack-quit' message, and
\* throws without doing anything when none is available.
C8_ExitTakesFirstAvailableRoute ==
    \A i \in CallsOf("exit") :
        LET c == calls[i]
            k == Kinds(c.effects)
            route == ExpectedRoute(ctx)
        IN /\ ("process.exit" \in k) <=> (route = "local")
           /\ ("remote.app.quit" \in k) <=> (route = "remote")
           /\ ("send" \in k) <=> (route = "message")
           /\ (c.outcome.kind = "threw") <=> (route = "throw")
           /\ "app.quit" \in k => route = "local"
           /\ route = "message" =>
                 c.effects = <<Effect("send", "velopack-quit", c.code, <<>>)>>
           /\ route = "throw" => c.effects = <<>>
           /\ \A j \in 1..Len(c.effects) : c.effects[j].code = c.code

C8_Witness ==
    /\ ctx.is_electron /\ ~ctx.app /\ ctx.remote /\ ctx.ipcRenderer
    /\ \E i \in CallsOf("exit") :
          /\ calls[i].code = 1
          /\ calls[i].effects = <<Effect("remote.app.quit", "", 1, <<>>)>>

Deliveries(i) ==
    {d \in 1..Len(mainLog) :
        mainLog[d].origin = i /\ mainLog[d].channel = "velopack-exec-fire-forget"}

\* C9: every fire-and-forget call returns nothing and leads to one spawn of
\* its command line: a privileged call spawns it and sends nothing, a
\* restricted call spawns nothing and sends one message, and a main process
\* that has run nativeRegisterElectron spawns it once on receipt.
C9_OneSpawnPerCall ==
    \A i \in CallsOf("fireAndForget") :
        LET c == calls[i] IN
        /\ c.outcome = ReturnedVoid
        /\ Privileged(ctx) => c.effects = <<SpawnOf("spawn", c.cmd)>>
        /\ ~Privileged(ctx) =>
              c.effects = <<Effect("send", "velopack-exec-fire-forget", 0, c.cmd)>>
        /\ \A j \in 1..Len(c.effects) :
              <<c.effects[j].file>> \o c.effects[j].args = c.cmd
        /\ \A d \in Deliveries(i) :
              mainLog[d].listeners >= 1 =>
                  mainLog[d].effects = <<SpawnOf("spawn", c.cmd)>>

\* C10: a blocking spawn made in a restricted context whose main process has
\* registered its handlers returns the child's standard output when the child
\* exits with code 0 and fails with the exit code otherwise.
C10_RestrictedBlockingClassifies ==
    \A i \in CallsOf("blocking") :
        LET c == calls[i] IN
        (Restricted(ctx) /\ c.listeners >= 1) =>
            /\ c.child.status = 0 => c.outcome = Returned(c.child.stdout)
            /\ c.child.status # 0 =>
                  /\ c.outcome.kind = "threw"
                  /\ MessageHas(c.outcome.message, TemplateStr(c.child.status))
====
